---- MODULE Spec2Model ----
(***************************************************************************)
(* Model of frontend/script.js: the camera / recorder / timer / view-mode  *)
(* state machine of the mock-interview page.  The script's globals are the *)
(* variables of the same name; the browser objects the script drives       *)
(* (getUserMedia promises, MediaStream tracks, MediaRecorder objects,      *)
(* setInterval timers, object URLs, the DOM elements it touches) are the   *)
(* remaining variables.  Every global function of the script can be called *)
(* at any time; browser callbacks run one at a time on the event loop.     *)
(***************************************************************************)
EXTENDS Integers, Sequences, FiniteSets, TLC

\* ---- bounds ----
MaxAcquire == 2      \* getUserMedia requests issued (page load + resets)
MaxRecorders == 2    \* MediaRecorder objects constructed
MaxFragments == 1    \* fragments with bytes a recorder hands out before stop()
MaxTime == 2         \* ticks counted by recordingTime
MaxUnload == 2       \* beforeunload events dispatched

\* null for object-valued globals (stream, mediaRecorder, URL, interval id)
Null == 0

VARIABLES
  \* script.js globals, lines 2-10
  stream, mediaRecorder, recordedChunks, isRecording, recordedVideoUrl,
  isMicEnabled, recordingTime, timerInterval, isPreviewMode,
  \* the elements of the page the script reads and writes
  dom,
  \* browser side
  loaded,       \* the window "load" event has been dispatched
  unloaded,     \* the window "beforeunload" event has been dispatched
  nUnload,      \* how many times it has been dispatched
  pending,      \* getUserMedia promises not yet settled
  nAcquire,     \* getUserMedia calls made so far
  lastAcquire,  \* how the most recently settled getUserMedia promise ended
  nStreams,     \* MediaStream objects handed out so far (ids 1..nStreams)
  liveStreams,  \* the streams whose tracks have not been stopped
  audioTrack,   \* audio track of the stream held in `stream`:
                \* "none" (no such track), "enabled" or "disabled"
  recorders,    \* MediaRecorder objects constructed, by id
  timers,       \* interval ids armed (setInterval, not yet clearInterval)
  nTimers,      \* setInterval calls made so far
  fired,        \* callbacks made by the interval armed last
  nUrls,        \* object URLs created so far (ids 1..nUrls)
  lastBlob,     \* the Blob behind the most recently created object URL:
                \* the recorder whose stop event built it, and its parts
  liveUrls,     \* object URLs created and not revoked
  download,     \* the object URL the last event saved as a file, or Null
  lastEvent     \* the handler or callback that ran last

globals == <<stream, mediaRecorder, recordedChunks, isRecording,
             recordedVideoUrl, isMicEnabled, recordingTime, timerInterval,
             isPreviewMode>>
browser == <<loaded, unloaded, nUnload, pending, nAcquire, lastAcquire,
             nStreams, liveStreams, audioTrack, recorders, timers, nTimers,
             fired, nUrls, lastBlob, liveUrls>>
vars == <<globals, dom, browser, download, lastEvent>>

\* ---- the page as index.html delivers it ----
InitialDom ==
  [ cameraVideoHidden |-> FALSE, cameraVideoSrcObject |-> Null,
    playbackVideoHidden |-> TRUE, playbackVideoSrc |-> Null,
    recordButtonHidden |-> FALSE, recordButtonDisabled |-> TRUE,
    recordButtonLabel |-> "Start Recording",
    resetButtonHidden |-> TRUE, downloadButtonHidden |-> TRUE,
    recordingIndicatorHidden |-> TRUE,
    recordingTimeText |-> <<0, 0>>,
    micButtonClass |-> "mic-enabled" ]

Init ==
  /\ stream = Null
  /\ mediaRecorder = Null
  /\ recordedChunks = <<>>
  /\ isRecording = FALSE
  /\ recordedVideoUrl = Null
  /\ isMicEnabled = TRUE
  /\ recordingTime = 0
  /\ timerInterval = Null
  /\ isPreviewMode = TRUE
  /\ dom = InitialDom
  /\ loaded = FALSE
  /\ unloaded = FALSE
  /\ nUnload = 0
  /\ pending = {}
  /\ nAcquire = 0
  /\ lastAcquire = "none"
  /\ nStreams = 0
  /\ liveStreams = {}
  /\ audioTrack = "none"
  /\ recorders = <<>>
  /\ timers = {}
  /\ nTimers = 0
  /\ fired = 0
  /\ nUrls = 0
  /\ lastBlob = [rec |-> Null, content |-> <<>>]
  /\ liveUrls = {}
  /\ download = Null
  /\ lastEvent = "none"

\* ---- UI helpers (pure functions of the element record) ----
SwitchToPreviewMode(d) ==
  [d EXCEPT !.cameraVideoHidden = FALSE, !.playbackVideoHidden = TRUE,
            !.recordButtonHidden = FALSE, !.resetButtonHidden = TRUE,
            !.downloadButtonHidden = TRUE]

SwitchToPlaybackMode(d, url) ==
  [d EXCEPT !.cameraVideoHidden = TRUE, !.playbackVideoHidden = FALSE,
            !.playbackVideoSrc = url,
            !.recordButtonHidden = TRUE, !.resetButtonHidden = FALSE,
            !.downloadButtonHidden = FALSE]

UpdateRecordingUI(d, rec) ==
  IF rec
  THEN [d EXCEPT !.recordButtonLabel = "Stop Recording",
                 !.recordingIndicatorHidden = FALSE]
  ELSE [d EXCEPT !.recordButtonLabel = "Start Recording",
                 !.recordingIndicatorHidden = TRUE]

UpdateMicrophoneUI(d, mic) ==
  [d EXCEPT !.micButtonClass = IF mic THEN "mic-enabled" ELSE "mic-disabled"]

\* "REC mm:ss": minutes and seconds of the counter
UpdateRecordingTime(d, t) ==
  [d EXCEPT !.recordingTimeText = <<t \div 60, t % 60>>]

\* ---- initializeCamera, up to its await: issue the getUserMedia request ----
InitializeCamera ==
  /\ nAcquire < MaxAcquire
  /\ nAcquire' = nAcquire + 1
  /\ pending' = pending \cup {[id |-> nAcquire + 1, audio |-> isMicEnabled]}

\* ---- the global functions of script.js (their effect on everything but
\* ---- lastEvent, which the calling action sets) ----

\* mediaRecorder.ondataavailable: keep the fragment only if it has bytes
OnDataAvailable(chunks, f) ==
  IF f.size > 0 THEN Append(chunks, f) ELSE chunks

\* startRecording without its first line, `if (!stream) return;`
StartRecordingNoSourceCheck ==
  /\ Len(recorders) < MaxRecorders
  /\ recordedChunks' = <<>>
  /\ recorders' = Append(recorders,
       [stream |-> stream, state |-> "recording", delivered |-> <<>>])
  /\ mediaRecorder' = Len(recorders) + 1
  /\ isRecording' = TRUE
  /\ recordingTime' = 0
  /\ dom' = UpdateRecordingUI(dom, TRUE)
  /\ nTimers' = nTimers + 1
  /\ fired' = 0
  /\ timerInterval' = nTimers + 1
  /\ timers' = timers \cup {nTimers + 1}
  /\ UNCHANGED <<stream, recordedVideoUrl, isMicEnabled, isPreviewMode,
                 loaded, unloaded, nUnload, pending, nAcquire, lastAcquire,
                 nStreams, liveStreams, audioTrack, nUrls, lastBlob,
                 liveUrls>>

StartRecording ==
  IF stream = Null
  THEN UNCHANGED <<globals, dom, browser>>
  ELSE /\ Len(recorders) < MaxRecorders
       /\ recordedChunks' = <<>>
       /\ recorders' = Append(recorders,
            [stream |-> stream, state |-> "recording", delivered |-> <<>>])
       /\ mediaRecorder' = Len(recorders) + 1
       /\ isRecording' = TRUE
       /\ recordingTime' = 0
       /\ dom' = UpdateRecordingUI(dom, TRUE)
       /\ nTimers' = nTimers + 1
       /\ fired' = 0
       /\ timerInterval' = nTimers + 1
       /\ timers' = timers \cup {nTimers + 1}
       /\ UNCHANGED <<stream, recordedVideoUrl, isMicEnabled, isPreviewMode,
                      loaded, unloaded, nUnload, pending, nAcquire,
                      lastAcquire,
                      nStreams, liveStreams, audioTrack, nUrls, lastBlob,
                      liveUrls>>

\* stopRecording wired to the toggle: a call while not recording starts one
StopRecordingAsToggle ==
  IF mediaRecorder # Null /\ isRecording
  THEN /\ recorders' = [recorders EXCEPT ![mediaRecorder].state =
                          IF @ = "recording" THEN "stopping" ELSE @]
       /\ isRecording' = FALSE
       /\ timers' = timers \ {timerInterval}
       /\ dom' = UpdateRecordingUI(dom, FALSE)
       /\ UNCHANGED <<stream, mediaRecorder, recordedChunks, recordedVideoUrl,
                      isMicEnabled, recordingTime, timerInterval,
                      isPreviewMode, loaded, unloaded, nUnload, pending,
                      nAcquire, lastAcquire, nStreams, liveStreams,
                      audioTrack, nTimers, fired, nUrls, lastBlob, liveUrls>>
  ELSE StartRecording

\* MediaRecorder.stop(): the recorder goes inactive at once and a task is
\* queued that fires dataavailable and then stop
StopRecording ==
  IF mediaRecorder # Null /\ isRecording
  THEN /\ recorders' = [recorders EXCEPT ![mediaRecorder].state =
                          IF @ = "recording" THEN "stopping" ELSE @]
       /\ isRecording' = FALSE
       /\ timers' = timers \ {timerInterval}
       /\ dom' = UpdateRecordingUI(dom, FALSE)
       /\ UNCHANGED <<stream, mediaRecorder, recordedChunks, recordedVideoUrl,
                      isMicEnabled, recordingTime, timerInterval,
                      isPreviewMode, loaded, unloaded, nUnload, pending,
                      nAcquire, lastAcquire, nStreams, liveStreams,
                      audioTrack, nTimers, fired, nUrls, lastBlob, liveUrls>>
  ELSE UNCHANGED <<globals, dom, browser>>

ToggleRecording ==
  IF isRecording THEN StopRecording ELSE StartRecording

\* resetRecording without URL.revokeObjectURL
ResetRecordingNoRevoke ==
  /\ recordedVideoUrl' = Null
  /\ recordedChunks' = <<>>
  /\ recordingTime' = 0
  /\ isPreviewMode' = TRUE
  /\ dom' = SwitchToPreviewMode(dom)
  /\ InitializeCamera
  /\ UNCHANGED <<stream, mediaRecorder, isRecording, isMicEnabled,
                 timerInterval, loaded, unloaded, nUnload, lastAcquire,
                 nStreams, liveStreams, audioTrack, recorders, timers,
                 nTimers, fired, nUrls, lastBlob, liveUrls>>

ResetRecording ==
  /\ liveUrls' = IF recordedVideoUrl # Null
                 THEN liveUrls \ {recordedVideoUrl} ELSE liveUrls
  /\ recordedVideoUrl' = Null
  /\ recordedChunks' = <<>>
  /\ recordingTime' = 0
  /\ isPreviewMode' = TRUE
  /\ dom' = SwitchToPreviewMode(dom)
  /\ InitializeCamera
  /\ UNCHANGED <<stream, mediaRecorder, isRecording, isMicEnabled,
                 timerInterval, loaded, unloaded, nUnload, lastAcquire,
                 nStreams, liveStreams, audioTrack, recorders, timers,
                 nTimers, fired, nUrls, lastBlob>>

\* downloadVideo that revokes the object URL once the link was clicked
DownloadVideoRevoking ==
  /\ download' = IF recordedVideoUrl # Null THEN recordedVideoUrl ELSE Null
  /\ liveUrls' = IF recordedVideoUrl # Null
                 THEN liveUrls \ {recordedVideoUrl} ELSE liveUrls
  /\ UNCHANGED <<globals, dom, loaded, unloaded, nUnload, pending, nAcquire,
                 lastAcquire, nStreams, liveStreams, audioTrack, recorders,
                 timers, nTimers, fired, nUrls, lastBlob>>

\* a.click() on a link to the object URL makes the browser save the file
DownloadVideo ==
  /\ download' = IF recordedVideoUrl # Null THEN recordedVideoUrl ELSE Null
  /\ UNCHANGED <<globals, dom, browser>>

\* toggleMicrophone that asks getUserMedia for a stream with the new setting
ToggleMicrophoneReacquire ==
  /\ isMicEnabled' = ~isMicEnabled
  /\ audioTrack' = IF stream # Null /\ audioTrack # "none"
                   THEN IF ~isMicEnabled THEN "enabled" ELSE "disabled"
                   ELSE audioTrack
  /\ dom' = UpdateMicrophoneUI(dom, ~isMicEnabled)
  /\ nAcquire < MaxAcquire
  /\ nAcquire' = nAcquire + 1
  /\ pending' = pending \cup {[id |-> nAcquire + 1, audio |-> ~isMicEnabled]}
  /\ UNCHANGED <<stream, mediaRecorder, recordedChunks, isRecording,
                 recordedVideoUrl, recordingTime, timerInterval,
                 isPreviewMode, loaded, unloaded, nUnload, lastAcquire,
                 nStreams, liveStreams, recorders, timers, nTimers, fired,
                 nUrls, lastBlob, liveUrls>>

ToggleMicrophone ==
  /\ isMicEnabled' = ~isMicEnabled
  /\ audioTrack' = IF stream # Null /\ audioTrack # "none"
                   THEN IF ~isMicEnabled THEN "enabled" ELSE "disabled"
                   ELSE audioTrack
  /\ dom' = UpdateMicrophoneUI(dom, ~isMicEnabled)
  /\ UNCHANGED <<stream, mediaRecorder, recordedChunks, isRecording,
                 recordedVideoUrl, recordingTime, timerInterval,
                 isPreviewMode, loaded, unloaded, nUnload, pending, nAcquire,
                 lastAcquire, nStreams, liveStreams, recorders, timers,
                 nTimers, fired, nUrls, lastBlob, liveUrls>>

\* ---- window events ----
PageLoad ==
  /\ ~loaded /\ ~unloaded
  /\ loaded' = TRUE
  /\ InitializeCamera
  /\ lastEvent' = "load"
  /\ download' = Null
  /\ UNCHANGED <<globals, dom, unloaded, nUnload, lastAcquire, nStreams,
                 liveStreams, audioTrack, recorders, timers, nTimers, fired,
                 nUrls, lastBlob, liveUrls>>

BeforeUnload ==
  /\ loaded
  /\ liveStreams' = IF stream # Null
                    THEN liveStreams \ {stream} ELSE liveStreams
  /\ timers' = IF timerInterval # Null
               THEN timers \ {timerInterval} ELSE timers
  /\ nUnload < MaxUnload
  /\ unloaded' = TRUE
  /\ nUnload' = nUnload + 1
  /\ lastEvent' = "beforeunload"
  /\ download' = Null
  /\ UNCHANGED <<globals, dom, loaded, pending, nAcquire, lastAcquire,
                 nStreams, audioTrack, recorders, nTimers, fired, nUrls,
                 lastBlob, liveUrls>>

\* ---- calls of the global functions (buttons, or any other caller) ----
CallStartRecording ==
  /\ loaded /\ ~unloaded /\ StartRecording
  /\ lastEvent' = "startRecording" /\ download' = Null

CallStopRecording ==
  /\ loaded /\ ~unloaded /\ StopRecording
  /\ lastEvent' = "stopRecording" /\ download' = Null

CallToggleRecording ==
  /\ loaded /\ ~unloaded /\ ToggleRecording
  /\ lastEvent' = "toggleRecording" /\ download' = Null

CallResetRecording ==
  /\ loaded /\ ~unloaded /\ ResetRecording
  /\ lastEvent' = "resetRecording" /\ download' = Null

CallDownloadVideo ==
  /\ loaded /\ ~unloaded /\ DownloadVideo
  /\ lastEvent' = "downloadVideo"

CallToggleMicrophone ==
  /\ loaded /\ ~unloaded /\ ToggleMicrophone
  /\ lastEvent' = "toggleMicrophone" /\ download' = Null

\* ---- browser callbacks ----
\* getUserMedia resolves: the rest of initializeCamera's try block
AcquireResolve(req) ==
  /\ ~unloaded /\ req \in pending
  /\ pending' = pending \ {req}
  /\ nStreams' = nStreams + 1
  /\ liveStreams' = liveStreams \cup {nStreams + 1}
  /\ audioTrack' = IF req.audio THEN "enabled" ELSE "none"
  /\ stream' = nStreams + 1
  /\ dom' = [dom EXCEPT !.cameraVideoSrcObject = nStreams + 1,
                        !.recordButtonDisabled = FALSE]
  /\ lastAcquire' = "ok"
  /\ lastEvent' = "acquired" /\ download' = Null
  /\ UNCHANGED <<mediaRecorder, recordedChunks, isRecording,
                 recordedVideoUrl, isMicEnabled, recordingTime,
                 timerInterval, isPreviewMode, loaded, unloaded, nUnload,
                 nAcquire, recorders, timers, nTimers, fired, nUrls,
                 lastBlob, liveUrls>>

\* getUserMedia rejects: initializeCamera's catch block (console + alert)
AcquireReject(req) ==
  /\ ~unloaded /\ req \in pending
  /\ pending' = pending \ {req}
  /\ lastAcquire' = "failed"
  /\ lastEvent' = "acquireFailed" /\ download' = Null
  /\ UNCHANGED <<globals, dom, loaded, unloaded, nUnload, nAcquire, nStreams,
                 liveStreams, audioTrack, recorders, timers, nTimers, fired,
                 nUrls, lastBlob, liveUrls>>

\* what a recorder has handed out so far: its fragments that carry bytes
Delivered(d, f) ==
  IF f.size > 0 THEN Append(d, f) ELSE d

\* a recorder that is recording fires dataavailable (when, and with how many
\* bytes, is the platform's choice)
RecorderData(r, size) ==
  /\ ~unloaded /\ r \in 1..Len(recorders)
  /\ recorders[r].state = "recording"
  /\ Len(recorders[r].delivered) < MaxFragments
  /\ LET f == [rec |-> r, seq |-> Len(recorders[r].delivered) + 1,
               size |-> size]
     IN /\ recorders' = [recorders EXCEPT ![r].delivered = Delivered(@, f)]
        /\ recordedChunks' = OnDataAvailable(recordedChunks, f)
  /\ lastEvent' = "dataavailable" /\ download' = Null
  /\ UNCHANGED <<stream, mediaRecorder, isRecording, recordedVideoUrl,
                 isMicEnabled, recordingTime, timerInterval, isPreviewMode,
                 dom, loaded, unloaded, nUnload, pending, nAcquire,
                 lastAcquire, nStreams, liveStreams, audioTrack, timers,
                 nTimers, fired, nUrls, lastBlob, liveUrls>>

\* mediaRecorder.onstop: Blob of the chunks, object URL, playback mode
OnStop(r, chunks) ==
  /\ lastBlob' = [rec |-> r, content |-> chunks]
  /\ nUrls' = nUrls + 1
  /\ recordedVideoUrl' = nUrls + 1
  /\ liveUrls' = liveUrls \cup {nUrls + 1}
  /\ isPreviewMode' = FALSE
  /\ dom' = SwitchToPlaybackMode(dom, nUrls + 1)

\* the task MediaRecorder.stop() queued: dataavailable with what was
\* gathered since the last fragment, then stop
RecorderStopTask(r, size) ==
  /\ ~unloaded /\ r \in 1..Len(recorders)
  /\ recorders[r].state = "stopping"
  /\ LET f == [rec |-> r, seq |-> Len(recorders[r].delivered) + 1,
               size |-> size]
     IN /\ recorders' = [recorders EXCEPT ![r].delivered = Delivered(@, f),
                                          ![r].state = "inactive"]
        /\ recordedChunks' = OnDataAvailable(recordedChunks, f)
        /\ OnStop(r, OnDataAvailable(recordedChunks, f))
  /\ lastEvent' = "stop" /\ download' = Null
  /\ UNCHANGED <<stream, mediaRecorder, isRecording, isMicEnabled,
                 recordingTime, timerInterval, loaded, unloaded, nUnload,
                 pending, nAcquire, lastAcquire, nStreams, liveStreams,
                 audioTrack, timers, nTimers, fired>>

\* the interval callback counting two per tick
TimerTickDouble(t) ==
  /\ ~unloaded /\ t \in timers
  /\ recordingTime < MaxTime
  /\ recordingTime' = recordingTime + 2
  /\ dom' = UpdateRecordingTime(dom, recordingTime + 2)
  /\ lastEvent' = "tick" /\ download' = Null
  /\ fired' = IF t = timerInterval THEN fired + 1 ELSE fired
  /\ UNCHANGED <<stream, mediaRecorder, recordedChunks, isRecording,
                 recordedVideoUrl, isMicEnabled, timerInterval,
                 isPreviewMode, loaded, unloaded, nUnload, pending, nAcquire,
                 lastAcquire, nStreams, liveStreams, audioTrack, recorders,
                 timers, nTimers, nUrls, lastBlob, liveUrls>>

\* an armed interval fires: the arrow function passed to setInterval
TimerTick(t) ==
  /\ ~unloaded /\ t \in timers
  /\ recordingTime < MaxTime
  /\ recordingTime' = recordingTime + 1
  /\ dom' = UpdateRecordingTime(dom, recordingTime + 1)
  /\ lastEvent' = "tick" /\ download' = Null
  /\ fired' = IF t = timerInterval THEN fired + 1 ELSE fired
  /\ UNCHANGED <<stream, mediaRecorder, recordedChunks, isRecording,
                 recordedVideoUrl, isMicEnabled, timerInterval,
                 isPreviewMode, loaded, unloaded, nUnload, pending, nAcquire,
                 lastAcquire, nStreams, liveStreams, audioTrack, recorders,
                 timers, nTimers, nUrls, lastBlob, liveUrls>>

Next ==
  \/ PageLoad
  \/ BeforeUnload
  \/ CallStartRecording
  \/ CallStopRecording
  \/ CallToggleRecording
  \/ CallResetRecording
  \/ CallDownloadVideo
  \/ CallToggleMicrophone
  \/ \E req \in pending : AcquireResolve(req)
  \/ \E req \in pending : AcquireReject(req)
  \/ \E r \in 1..Len(recorders), size \in 0..1 : RecorderData(r, size)
  \/ \E r \in 1..Len(recorders), size \in 0..1 : RecorderStopTask(r, size)
  \/ \E t \in timers : TimerTick(t)

Spec == Init /\ [][Next]_vars

(***************************************************************************)
(* The recording state of section 4.2, read off the globals:               *)
(* Recording while isRecording, Stopped when a finished artifact is held,  *)
(* Idle otherwise.                                                         *)
(***************************************************************************)
RecState ==
  IF isRecording THEN "Recording"
  ELSE IF recordedVideoUrl # Null THEN "Stopped" ELSE "Idle"

\* stop() was called on the current recorder and its stop event is queued
StopPending ==
  mediaRecorder # Null /\ recorders[mediaRecorder].state = "stopping"

\* the transition table: start (given a stream), stop, reset
AfterStart(s) == IF s = "Idle" /\ stream # Null THEN "Recording" ELSE s
AfterStop(s) == IF s = "Recording" THEN "Stopped" ELSE s
AfterReset(s) == IF s = "Stopped" THEN "Idle" ELSE s

\* the state a call leaves is the table's; a stop is also accepted while the
\* recorder's stop event, which builds the artifact, is still queued
StartFollowsTable == RecState' = AfterStart(RecState)
StopFollowsTable ==
  \/ RecState' = AfterStop(RecState)
  \/ RecState = "Recording" /\ RecState' = "Idle" /\ StopPending'
ResetFollowsTable == RecState' = AfterReset(RecState)

\* C1: every start / stop / reset call moves the recording state as the
\* table Idle -start-> Recording -stop-> Stopped -reset-> Idle says, and a
\* call the table does not list for the current state leaves it unchanged.
C1_CallsFollowTable ==
  [][ /\ lastEvent' = "startRecording" => StartFollowsTable
      /\ lastEvent' = "stopRecording" => StopFollowsTable
      /\ lastEvent' = "resetRecording" => ResetFollowsTable
      /\ lastEvent' = "toggleRecording" =>
           IF isRecording THEN StopFollowsTable ELSE StartFollowsTable
    ]_vars

\* C2: at most one object URL is created and not yet revoked.
C2_AtMostOneLiveUrl == Cardinality(liveUrls) <= 1

PlaybackView ==
  /\ ~isPreviewMode
  /\ ~dom.playbackVideoHidden /\ dom.cameraVideoHidden
  /\ ~dom.resetButtonHidden /\ ~dom.downloadButtonHidden
  /\ dom.recordButtonHidden

PreviewView ==
  /\ isPreviewMode
  /\ dom.playbackVideoHidden /\ ~dom.cameraVideoHidden
  /\ dom.resetButtonHidden /\ dom.downloadButtonHidden
  /\ ~dom.recordButtonHidden

\* C3: the view is Playback exactly when the recording state is Stopped, and
\* Preview in Idle and in Recording.
C3_ViewMatchesState ==
  IF RecState = "Stopped" THEN PlaybackView ELSE PreviewView

\* C4: the Blob built when a recorder stops is exactly the fragments with
\* bytes that this recorder delivered, in order, and nothing else.
C4_ArtifactIsItsRecording ==
  lastBlob.rec # Null =>
    lastBlob.content = recorders[lastBlob.rec].delivered

\* C5: while Recording a tick adds exactly 1 to recordingTime and no other
\* step changes it; after stop() a tick no longer changes it.
C5_TimerMonotone ==
  [][ /\ (isRecording /\ lastEvent' = "tick") =>
           recordingTime' = recordingTime + 1
      /\ (isRecording /\ isRecording' /\ lastEvent' # "tick") =>
           recordingTime' = recordingTime
      /\ (~isRecording /\ lastEvent' = "tick") =>
           recordingTime' = recordingTime
    ]_vars

\* C6: at most one interval is armed, and only while Recording.
C6_OneTimerWhileRecording ==
  /\ Cardinality(timers) <= 1
  /\ timers # {} => isRecording

\* C7: startRecording called while Recording changes neither the state, the
\* fragments, the counter, the recorder nor the timer.
C7_StartWhileRecordingIsNoOp ==
  [][ (isRecording /\ lastEvent' = "startRecording") =>
        UNCHANGED <<isRecording, recordedChunks, recordingTime,
                    mediaRecorder, recorders, timerInterval, timers>>
    ]_vars

\* C8: at most one acquired stream has tracks that were not stopped.
C8_AtMostOneLiveStream == Cardinality(liveStreams) <= 1

\* C9: from a failed acquisition until the next successful one the record
\* button is disabled and no recorder is created.
C9_NoSessionAfterFailure ==
  [][ lastAcquire' = "failed" =>
        /\ dom'.recordButtonDisabled
        /\ lastAcquire = "failed" => Len(recorders') = Len(recorders)
    ]_vars

\* C10: startRecording with no stream acquired changes neither the state,
\* the fragments, the counter, the recorder nor the timer.
C10_StartWithoutStreamIsNoOp ==
  [][ (stream = Null /\ lastEvent' = "startRecording") =>
        UNCHANGED <<isRecording, recordedChunks, recordingTime,
                    mediaRecorder, recorders, timerInterval, timers,
                    nTimers, dom>>
    ]_vars

\* startRecording has just been called and there was no stream to record
C10_Witness ==
  /\ lastEvent = "startRecording"
  /\ stream = Null
  /\ pending = {} /\ lastAcquire = "failed"

\* C11: once the beforeunload handler has run, no acquired stream has live
\* tracks, no object URL is unrevoked and no interval is armed.
C11_TeardownReleasesAll ==
  lastEvent = "beforeunload" =>
    liveStreams = {} /\ liveUrls = {} /\ timers = {}

\* C12: while a getUserMedia request is in flight the record button is
\* disabled and no call creates a recorder.
C12_NoStartWhileAcquiring ==
  [][ pending # {} =>
        /\ dom.recordButtonDisabled
        /\ Len(recorders') = Len(recorders)
    ]_vars

\* one acquisition, one start, then stop and the recorder's stop event;
\* no reset and no second start
OneRecordingDone ==
  /\ nAcquire = 1 /\ nStreams = 1
  /\ Len(recorders) = 1 /\ recorders[1].state = "inactive"

\* C13: after acquire, start, n ticks, stop (and the recorder's stop event)
\* the state is Stopped, recordingTime is n, and the artifact URL is held,
\* live and set as the source of the playback video.
C13_RecordThenStop ==
  OneRecordingDone =>
    /\ RecState = "Stopped"
    /\ recordingTime = fired
    /\ recordedVideoUrl # Null /\ recordedVideoUrl \in liveUrls
    /\ dom.playbackVideoSrc = recordedVideoUrl
    /\ PlaybackView

\* the scenario with two ticks
C13_Witness ==
  OneRecordingDone /\ fired = 2 /\ lastEvent = "stop"

\* C14: running the beforeunload handler, or stopRecording, a second time
\* in a row changes nothing.
C14_ReleaseIdempotent ==
  [][ /\ (lastEvent = "beforeunload" /\ lastEvent' = "beforeunload") =>
           UNCHANGED <<globals, dom, loaded, unloaded, pending, nAcquire,
                       lastAcquire, nStreams, liveStreams, audioTrack,
                       recorders, timers, nTimers, fired, nUrls, lastBlob,
                       liveUrls>>
      /\ (lastEvent = "stopRecording" /\ lastEvent' = "stopRecording") =>
           UNCHANGED <<globals, dom, browser>>
    ]_vars

\* the handler has run twice and had a stream and an interval to release
C14_Witness ==
  /\ nUnload = 2 /\ lastEvent = "beforeunload"
  /\ stream # Null /\ stream \notin liveStreams
  /\ timerInterval # Null /\ timerInterval \notin timers

\* C15: resetRecording in Stopped revokes the held URL, empties the
\* fragments, zeroes the counter and shows Preview; the URL is already
\* revoked when the new getUserMedia request is in flight.
C15_ResetFromStopped ==
  [][ (RecState = "Stopped" /\ lastEvent' = "resetRecording") =>
        /\ recordedVideoUrl \notin liveUrls'
        /\ recordedVideoUrl' = Null
        /\ recordedChunks' = <<>>
        /\ recordingTime' = 0
        /\ PreviewView'
        /\ \E req \in pending' : req \notin pending
    ]_vars

\* a reset has just released the only artifact and asked for a new stream
C15_Witness ==
  /\ lastEvent = "resetRecording" /\ ~isRecording
  /\ nUrls = 1 /\ liveUrls = {} /\ recordedVideoUrl = Null
  /\ recordingTime = 0 /\ fired > 0
  /\ pending # {}

\* C16: downloadVideo changes no state, and saves a file exactly when an
\* artifact URL is held (the file is that URL's).
C16_DownloadChangesNothing ==
  [][ lastEvent' = "downloadVideo" =>
        /\ UNCHANGED <<globals, dom, browser>>
        /\ download' = recordedVideoUrl
    ]_vars

\* a download of a held artifact has just happened
C16_Witness ==
  lastEvent = "downloadVideo" /\ download # Null /\ download \in liveUrls

\* s is an initial segment of t
IsPrefix(s, t) ==
  /\ Len(s) <= Len(t)
  /\ \A i \in 1..Len(s) : s[i] = t[i]

\* C17: a dataavailable callback appends a fragment with bytes at the end
\* or changes nothing; recordedChunks never holds an empty fragment; and
\* while Recording no accumulated fragment is removed or reordered.
C17_ChunksAppendOnly ==
  [][ /\ lastEvent' = "dataavailable" =>
           \/ recordedChunks' = recordedChunks
           \/ /\ Len(recordedChunks') = Len(recordedChunks) + 1
              /\ IsPrefix(recordedChunks, recordedChunks')
              /\ recordedChunks'[Len(recordedChunks')].size > 0
      /\ \A i \in 1..Len(recordedChunks') : recordedChunks'[i].size > 0
      /\ (isRecording /\ isRecording') =>
           IsPrefix(recordedChunks, recordedChunks')
    ]_vars

\* C18: toggleMicrophone leaves the stream, the requests, the recording
\* state, fragments, counter, artifact and view alone, and with no stream
\* held it changes no track.
C18_MicToggleInPlace ==
  [][ lastEvent' = "toggleMicrophone" =>
        /\ UNCHANGED <<stream, nStreams, liveStreams, pending, nAcquire,
                       isRecording, mediaRecorder, recorders,
                       recordedChunks, recordingTime, recordedVideoUrl,
                       nUrls, lastBlob, liveUrls, isPreviewMode, timers,
                       timerInterval>>
        /\ dom' = [dom EXCEPT !.micButtonClass = dom'.micButtonClass]
        /\ stream = Null => audioTrack' = audioTrack
    ]_vars

\* the microphone was just switched off on a held stream, while recording
C18_Witness ==
  /\ lastEvent = "toggleMicrophone"
  /\ stream # Null /\ audioTrack = "disabled" /\ isRecording

\* C19: whenever a stream is held, it has an enabled audio track exactly
\* when isMicEnabled is true.
C19_AudioMatchesMicFlag ==
  stream # Null => ((audioTrack = "enabled") <=> isMicEnabled)

\* C20: while the recording indicator is shown, the time displayed is that
\* of recordingTime.
C20_DisplayedTimeIsCounter ==
  ~dom.recordingIndicatorHidden =>
    dom.recordingTimeText = <<recordingTime \div 60, recordingTime % 60>>

====
